---- MODULE Spec2Model ----
(***************************************************************************)
(* Download orchestration of the abstract downloader (src/main.py): the    *)
(* CSV download log, the in-memory download history, the retry loop of     *)
(* __save_article and the thread pool of main() (Spec); the loading of a   *)
(* log left by earlier runs (SpecLoad); the discovery of the abstract URLs *)
(* by get_abstract_urls (SpecDiscover).                                    *)
(*                                                                         *)
(* A URL is a sequence of tokens; a token is either a path fragment that   *)
(* ends in "/" or a slash-free piece of text, and the URL string is their  *)
(* concatenation.  The datetime column of the log is left out: no          *)
(* operation reads it.                                                     *)
(***************************************************************************)
EXTENDS Integers, Sequences, FiniteSets, TLC

(* ------------------------------ bounds --------------------------------- *)
\* longest list of abstract URLs get_abstract_urls hands to the pool
MaxUrls == 3
\* largest --max_threads
MaxWorkers == 2
\* processes (runs of main) over the same log file
MaxRuns == 2
\* failures the environment may inflict during a run on a batch that is
\* followed through every retry (see Budget)
MaxFaults == 8
\* failures the environment may inflict during a run on any other batch of two
MaxPairFaults == 1
\* rows after the header in a log left by earlier runs
MaxRows == 3
\* listing pages of a site
MaxPages == 2

(* ------------------------- program constants --------------------------- *)
\* while attempt <= 5
MaxAttempt == 5
\* wait_time = 2 ** attempt
BackoffBase == 2

(* ------------------------------- URLs ---------------------------------- *)
AbsTok == "/doi/abs/"
PdfTok == "/doi/pdfdirect/"
SlashToks == {AbsTok, PdfTok}

\* the abstract URLs discovery may return: article a under two links (one
\* of them already its direct-download path) and the articles b and c
AbstractUrls ==
    { <<AbsTok, "a">>, <<PdfTok, "a">>, <<AbsTok, "b">>, <<AbsTok, "c">> }

\* abstract_url.replace("/doi/abs/", "/doi/pdfdirect/")
convert_to_download_url(abstract_url) ==
    [k \in DOMAIN abstract_url |->
        IF abstract_url[k] = AbsTok THEN PdfTok ELSE abstract_url[k]]

\* download_url.split("/")[-1]: the text after the last "/"
RECURSIVE LastSegment(_)
LastSegment(url) ==
    IF url = << >> \/ url[Len(url)] \in SlashToks
    THEN ""
    ELSE LastSegment(SubSeq(url, 1, Len(url) - 1)) \o url[Len(url)]

\* file_name = download_url.split("/")[-1] + ".pdf"
file_name_of(download_url) == LastSegment(download_url) \o ".pdf"

FileNames == { file_name_of(convert_to_download_url(u)) : u \in AbstractUrls }

(* ---------------------------- the CSV log ------------------------------ *)
\* writer.writeheader(): the row of field names
HeaderRow ==
    [ start_url |-> <<"start_url">>, download_url |-> <<"download_url">>,
      file_name |-> "file_name", status |-> "status" ]

\* the row writer.writerow() writes
LogRow(start_url, download_url, file_name, status) ==
    [ start_url |-> start_url, download_url |-> download_url,
      file_name |-> file_name, status |-> status ]

\* csv.DictReader: the first line names the fields, the others are rows
DictReaderRows(log) == { k \in DOMAIN log : k >= 2 }

\* a loader that trusts the first row of each resource only
load_first_record(exists, log) ==
    { log[k].download_url :
        k \in { j \in DictReaderRows(log) :
                  /\ log[j].status = "success"
                  /\ \A m \in DictReaderRows(log) :
                        log[m].download_url = log[j].download_url => m >= j } }

\* a loader that trusts the last row of each resource only
load_last_record(exists, log) ==
    { log[k].download_url :
        k \in { j \in DictReaderRows(log) :
                  /\ log[j].status = "success"
                  /\ \A m \in DictReaderRows(log) :
                        log[m].download_url = log[j].download_url => m <= j } }

\* __load_download_history: the download_url of every row whose status is
\* 'success' if the log exists, set() if not
load_download_history(exists, log) ==
    IF exists
    THEN { log[k].download_url :
             k \in { j \in DictReaderRows(log) : log[j].status = "success" } }
    ELSE {}

(* --------------------------- HTTP responses ---------------------------- *)
\* the status codes a GET may be answered with
Statuses == {200, 204, 304, 404, 500}

\* the lengths of a response body, in chunks of 1024 bytes: empty, one chunk
BodySizes == {0, 1}

\* response.raise_for_status() raises for 4xx and 5xx
raise_for_status(status) == status >= 400 /\ status < 600

(* ------------------------------- state --------------------------------- *)
VARIABLES
    urls,              \* the list get_abstract_urls returned
    workers,           \* max_workers of the pool
    run,               \* which run of main() this is
    ledger,            \* content of download_log.csv, a sequence of rows
    log_exists,        \* os.path.exists(DOWNLOAD_LOG)
    download_history,  \* self.download_history
    files,             \* downloaded_abstracts/: file name -> state
    tasks,             \* one download_abstract call per element of urls
    aborted,           \* main() has re-raised a task's exception
    budget,            \* failures the environment may still inflict in this run
    start_history,     \* download_history as loaded at the start of the run
    prev_succeeded,    \* resources a task of an earlier run succeeded for
    crawl              \* get_abstract_urls: the site, the browser, the loop

vars == << urls, workers, run, ledger, log_exists, download_history, files, tasks,
           aborted, budget, start_history, prev_succeeded, crawl >>

Absent == [ size |-> 0, complete |-> FALSE, exists |-> FALSE ]

\* a fresh installation: no log, an empty download directory
InitialDisk ==
    [ ledger |-> << >>, log_exists |-> FALSE, files |-> [ f \in FileNames |-> Absent ] ]

\* get_abstract_urls has returned; the list it returned is urls
Returned == [ phase |-> "done", site |-> << >>, max_pages |-> 0,
              parsed |-> 0, at |-> 0, failed |-> 0 ]

\* a task as executor.map submits it: queued, nothing done yet
NewTask ==
    [ pc       |-> "queued",   \* queued, check, get, open, stream, log_open, log_stat, log_flush, add, done
      outcome  |-> "none",     \* skipped, success, failed, raised, cancelled
      attempt  |-> 0,          \* attempt of __save_article
      gets     |-> 0,          \* requests.get calls issued
      sleeps   |-> << >>,      \* the time.sleep calls made, in order
      ctx      |-> "none",     \* which __log_download call is running
      hdr      |-> FALSE,      \* os.stat(...).st_size == 0 as this call saw it
      body     |-> 0,          \* chunks of the response being streamed
      pos      |-> 0,          \* chunks written so far
      nsucc    |-> 0,          \* success rows this task appended
      nfail    |-> 0,          \* failed rows this task appended
      opened   |-> FALSE,      \* the task opened its destination file
      added    |-> FALSE,      \* the task added its URL to download_history
      last     |-> 0,          \* status code of the response being handled, 0 if none
      hist     |-> "err" ]     \* what its requests met so far: err, transient, mixed

\* the failures the environment may inflict during run r on a batch of n
\* run by w workers: a batch of one, and in the first run a batch of two run
\* by one worker, is followed through every retry, any other batch of two
\* through MaxPairFaults failures, a larger batch meets none
Budget(n, w, r) ==
    IF n = 1 \/ (n = 2 /\ w = 1 /\ r = 1) THEN MaxFaults
    ELSE IF n = 2 THEN MaxPairFaults
    ELSE 0

\* the lists discovery may return, up to the names of the articles: the
\* first article met is a, the second b, the third c; a list of more than
\* two links has no link twice (two links may still lead to one resource)
Article(url) == url[Len(url)]
InOrder(list) ==
    \A k \in DOMAIN list :
        /\ Article(list[k]) = "b" => \E j \in 1..(k - 1) : Article(list[j]) = "a"
        /\ Article(list[k]) = "c" => \E j \in 1..(k - 1) : Article(list[j]) = "b"
NoRepeat(list) ==
    Len(list) > 2 => \A j, k \in DOMAIN list : list[j] = list[k] => j = k
UrlLists ==
    { list \in UNION { [ 1..n -> AbstractUrls ] : n \in 1..MaxUrls } :
        InOrder(list) /\ NoRepeat(list) }

Init ==
    /\ urls \in UrlLists
    /\ workers \in 1..MaxWorkers
    /\ run = 1
    /\ ledger = InitialDisk.ledger
    /\ files = InitialDisk.files
    /\ log_exists = InitialDisk.log_exists
    /\ download_history = load_download_history(InitialDisk.log_exists, InitialDisk.ledger)
    /\ start_history = load_download_history(InitialDisk.log_exists, InitialDisk.ledger)
    /\ crawl = Returned
    /\ tasks = [ i \in 1..Len(urls) |-> NewTask ]
    /\ budget = Budget(Len(urls), workers, 1)
    /\ aborted = FALSE
    /\ prev_succeeded = {}

(* ------------------------------ helpers -------------------------------- *)
TaskIds == DOMAIN tasks
DownloadUrl(i) == convert_to_download_url(urls[i])
FileName(i) == file_name_of(DownloadUrl(i))

Running == { i \in TaskIds : tasks[i].pc \notin {"queued", "done"} }
AllDone == \A i \in TaskIds : tasks[i].pc = "done"

Finish(t, outcome) ==
    [ t EXCEPT !.pc = "done", !.outcome = outcome, !.ctx = "none", !.hdr = FALSE,
               !.body = 0, !.pos = 0, !.last = 0 ]

\* a loop written "while attempt < 5"
WhileTopStrict(t) ==
    IF t.attempt < MaxAttempt
    THEN [ t EXCEPT !.pc = "get", !.ctx = "none", !.hdr = FALSE, !.body = 0, !.pos = 0,
                    !.last = 0 ]
    ELSE [ t EXCEPT !.pc = "log_open", !.ctx = "final", !.hdr = FALSE, !.body = 0, !.pos = 0,
                    !.last = 0 ]

\* the test of "while attempt <= 5" and what follows it: another request,
\* or the __log_download(..., 'failed') after the loop
WhileTop(t) ==
    IF t.attempt <= MaxAttempt
    THEN [ t EXCEPT !.pc = "get", !.ctx = "none", !.hdr = FALSE, !.body = 0, !.pos = 0,
                    !.last = 0 ]
    ELSE [ t EXCEPT !.pc = "log_open", !.ctx = "final", !.hdr = FALSE, !.body = 0, !.pos = 0,
                    !.last = 0 ]

\* wait_time = 2 ** attempt
wait_time(attempt) == BackoffBase ^ attempt

\* the except clause of __save_article: count the attempt, sleep, loop
Except(t, hist) ==
    WhileTop([ t EXCEPT !.attempt = t.attempt + 1,
                        !.sleeps = Append(t.sleeps, wait_time(t.attempt + 1)),
                        !.hist = hist ])

\* hist after one more failure of the given kind
Worse(h, kind) ==
    IF h = "mixed" \/ kind = "mixed" THEN "mixed"
    ELSE IF h = "transient" \/ kind = "transient" THEN "transient"
    ELSE "err"

SetTask(i, t) == tasks' = [ tasks EXCEPT ![i] = t ]

(* ------------------------------ actions -------------------------------- *)
Frame == UNCHANGED << urls, workers, run, start_history, prev_succeeded, crawl >>

\* the environment inflicts one more failure
Fault == budget > 0 /\ budget' = budget - 1
NoFault == UNCHANGED budget

\* a free worker of the pool takes the next submitted call (main, executor.map)
Start(i) ==
    /\ tasks[i].pc = "queued"
    /\ \A j \in TaskIds : j < i => tasks[j].pc # "queued"
    /\ Cardinality(Running) < workers
    /\ SetTask(i, [ tasks[i] EXCEPT !.pc = "check" ])
    /\ NoFault
    /\ UNCHANGED << ledger, download_history, files, aborted >>
    /\ UNCHANGED log_exists
    /\ Frame

\* a check that looks the abstract URL up instead of the download URL
CheckAbstractUrl(i) ==
    /\ tasks[i].pc = "check"
    /\ IF urls[i] \in download_history
       THEN SetTask(i, Finish(tasks[i], "skipped"))
       ELSE SetTask(i, WhileTop(tasks[i]))
    /\ NoFault
    /\ UNCHANGED << ledger, download_history, files, aborted >>
    /\ UNCHANGED log_exists
    /\ Frame

\* download_abstract up to the call of __save_article: skip a URL of the history
Check(i) ==
    /\ tasks[i].pc = "check"
    /\ IF DownloadUrl(i) \in download_history
       THEN SetTask(i, Finish(tasks[i], "skipped"))
       ELSE SetTask(i, WhileTop(tasks[i]))
    /\ NoFault
    /\ UNCHANGED << ledger, download_history, files, aborted >>
    /\ UNCHANGED log_exists
    /\ Frame

\* what a response with this status does to the task that has just sent its
\* request: raise_for_status and the except clause, the 200 branch, the else branch
OnStatus(t, status, body) ==
    IF raise_for_status(status)
    THEN Except(t, Worse(t.hist, "err"))
    ELSE IF status = 200
    THEN [ t EXCEPT !.pc = "open", !.body = body, !.last = status ]
    ELSE [ t EXCEPT !.pc = "log_open", !.ctx = "else", !.last = status,
                    !.hist = Worse(t.hist, IF status >= 200 /\ status < 300
                                           THEN "mixed" ELSE "transient") ]

\* one pass of the try block up to the test of the status code
Get(i) ==
    /\ tasks[i].pc = "get"
    /\ LET t == [ tasks[i] EXCEPT !.gets = tasks[i].gets + 1 ]
       IN  \/ \* requests.get raises (connection error, timeout)
              /\ Fault
              /\ SetTask(i, Except(t, Worse(t.hist, "err")))
           \/ \E status \in Statuses, body \in BodySizes :
                /\ status # 200 => body = 0
                /\ IF status = 200 THEN NoFault ELSE Fault
                /\ SetTask(i, OnStatus(t, status, body))
    /\ UNCHANGED << ledger, download_history, files, aborted >>
    /\ UNCHANGED log_exists
    /\ Frame

\* open(file_path, 'wb'): creates or truncates the destination file
OpenFile(i) ==
    /\ tasks[i].pc = "open"
    /\ \/ /\ files' = [ files EXCEPT ![FileName(i)] =
                          [ size |-> 0, complete |-> FALSE, exists |-> TRUE ] ]
          /\ SetTask(i, [ tasks[i] EXCEPT !.pc = "stream", !.pos = 0, !.opened = TRUE ])
          /\ NoFault
       \/ \* the open raises (a local fault)
          /\ Fault
          /\ SetTask(i, Except(tasks[i], "mixed"))
          /\ UNCHANGED files
    /\ UNCHANGED << ledger, download_history, aborted >>
    /\ UNCHANGED log_exists
    /\ Frame

\* one round of "for chunk in response.iter_content(1024): pdf_file.write(chunk)"
WriteChunk(i) ==
    /\ tasks[i].pc = "stream"
    /\ tasks[i].pos < tasks[i].body
    /\ \/ /\ files' = [ files EXCEPT ![FileName(i)] =
                          [ size |-> IF @.size > tasks[i].pos + 1
                                     THEN @.size ELSE tasks[i].pos + 1,
                            complete |-> FALSE, exists |-> TRUE ] ]
          /\ SetTask(i, [ tasks[i] EXCEPT !.pos = tasks[i].pos + 1 ])
          /\ NoFault
       \/ \* the connection breaks while the body is read; the with block
          \* closes the file as it is
          /\ Fault
          /\ SetTask(i, Except(tasks[i], Worse(tasks[i].hist, "err")))
          /\ UNCHANGED files
    /\ UNCHANGED << ledger, download_history, aborted >>
    /\ UNCHANGED log_exists
    /\ Frame

\* the body is exhausted: the with block closes the file
CloseFile(i) ==
    /\ tasks[i].pc = "stream"
    /\ tasks[i].pos = tasks[i].body
    /\ files' = [ files EXCEPT ![FileName(i)] =
                    [ size |-> @.size, complete |-> (@.size = tasks[i].body),
                      exists |-> TRUE ] ]
    /\ SetTask(i, [ tasks[i] EXCEPT !.pc = "log_open", !.ctx = "success",
                                    !.body = 0, !.pos = 0, !.hist = "mixed" ])
    /\ NoFault
    /\ UNCHANGED << ledger, download_history, aborted >>
    /\ UNCHANGED log_exists
    /\ Frame

\* an exception of the success append swallowed, the URL still added
LogRaisedKeepsHistory(t) ==
    IF t.ctx = "success"
    THEN [ t EXCEPT !.pc = "add", !.ctx = "none", !.hdr = FALSE ]
    ELSE IF t.ctx = "else"
    THEN Except(t, "mixed")
    ELSE IF t.ctx = "final"
    THEN [ t EXCEPT !.ctx = "handler", !.hist = "mixed" ]
    ELSE Finish(t, "raised")

\* where an exception of __log_download goes: to the except clause of
\* __save_article from inside the loop, to the except clause of
\* download_abstract from the call after the loop, out of the task from there
LogRaised(t) ==
    IF t.ctx \in {"success", "else"}
    THEN Except(t, "mixed")
    ELSE IF t.ctx = "final"
    THEN [ t EXCEPT !.ctx = "handler", !.hist = "mixed" ]
    ELSE Finish(t, "raised")

\* __log_download: open(DOWNLOAD_LOG, 'a'), which creates the file if there
\* is none
LogOpen(i) ==
    /\ tasks[i].pc = "log_open"
    /\ \/ /\ SetTask(i, [ tasks[i] EXCEPT !.pc = "log_stat" ])
          /\ log_exists' = TRUE
          /\ NoFault
       \/ \* the log cannot be opened: the call raises
          /\ Fault
          /\ SetTask(i, LogRaised(tasks[i]))
          /\ UNCHANGED log_exists
    /\ UNCHANGED << ledger, download_history, files, aborted >>
    /\ Frame

\* __log_download: os.stat(DOWNLOAD_LOG).st_size == 0, the size of the file
\* as it is now, whatever other calls have appended since the open
LogStat(i) ==
    /\ tasks[i].pc = "log_stat"
    /\ SetTask(i, [ tasks[i] EXCEPT !.pc = "log_flush", !.hdr = (Len(ledger) = 0) ])
    /\ NoFault
    /\ UNCHANGED << ledger, download_history, files, aborted >>
    /\ UNCHANGED log_exists
    /\ Frame

\* every call passing 'success'
StatusAlwaysSuccess(ctx) == "success"

\* the status each call of __log_download passes
StatusOf(ctx) == IF ctx = "success" THEN "success" ELSE "failed"

\* the row this call of __log_download writes
RowOf(i) == LogRow(urls[i], DownloadUrl(i), FileName(i), StatusOf(tasks[i].ctx))

\* what follows the call of __log_download that has returned
AfterLog(t, row) ==
    LET c == [ t EXCEPT !.nsucc = t.nsucc + (IF row.status = "success" THEN 1 ELSE 0),
                        !.nfail = t.nfail + (IF row.status = "failed" THEN 1 ELSE 0) ]
    IN  IF t.ctx = "success"
        THEN [ c EXCEPT !.pc = "add", !.ctx = "none", !.hdr = FALSE ]
        ELSE IF t.ctx = "else"
        THEN WhileTop(c)
        ELSE Finish(c, "failed")

\* a log opened for writing at the position seen when it was opened: a call
\* that saw the log empty writes over what was appended meanwhile
LogFlushInPlace(i) ==
    /\ tasks[i].pc = "log_flush"
    /\ ledger' = IF tasks[i].hdr THEN << HeaderRow, RowOf(i) >>
                 ELSE ledger \o << RowOf(i) >>
    /\ SetTask(i, AfterLog(tasks[i], RowOf(i)))
    /\ NoFault
    /\ UNCHANGED << download_history, files, aborted >>
    /\ UNCHANGED log_exists
    /\ Frame

\* __log_download, second half: header if the log was empty, the row, close
LogFlush(i) ==
    /\ tasks[i].pc = "log_flush"
    /\ ledger' = ledger \o (IF tasks[i].hdr THEN << HeaderRow >> ELSE << >>)
                        \o << RowOf(i) >>
    /\ SetTask(i, AfterLog(tasks[i], RowOf(i)))
    /\ NoFault
    /\ UNCHANGED << download_history, files, aborted >>
    /\ UNCHANGED log_exists
    /\ Frame

\* a success that is logged but not remembered in memory
AddHistoryForgets(i) ==
    /\ tasks[i].pc = "add"
    /\ SetTask(i, Finish([ tasks[i] EXCEPT !.added = TRUE ], "success"))
    /\ NoFault
    /\ UNCHANGED << ledger, download_history, files, aborted >>
    /\ UNCHANGED log_exists
    /\ Frame

\* self.download_history.add(download_url); return
AddHistory(i) ==
    /\ tasks[i].pc = "add"
    /\ download_history' = download_history \cup { DownloadUrl(i) }
    /\ SetTask(i, Finish([ tasks[i] EXCEPT !.added = TRUE ], "success"))
    /\ NoFault
    /\ UNCHANGED << ledger, files, aborted >>
    /\ UNCHANGED log_exists
    /\ Frame

\* main: list(executor.map(...)) reaches the result of a call that raised;
\* the iterator cancels the calls no worker has taken and the exception leaves main
MainAbort ==
    /\ ~aborted
    /\ \E k \in TaskIds :
         /\ tasks[k].outcome = "raised"
         /\ \A j \in TaskIds : j < k => tasks[j].pc = "done"
    /\ aborted' = TRUE
    /\ tasks' = [ i \in TaskIds |->
                    IF tasks[i].pc = "queued"
                    THEN Finish(tasks[i], "cancelled") ELSE tasks[i] ]
    /\ NoFault
    /\ UNCHANGED << ledger, download_history, files >>
    /\ UNCHANGED log_exists
    /\ Frame

\* the process has ended and main() is run again on the same URLs:
\* Webdriver.__init__ loads the history from the log
NextRun ==
    /\ AllDone
    /\ run < MaxRuns
    /\ run' = run + 1
    /\ download_history' = load_download_history(log_exists, ledger)
    /\ start_history' = load_download_history(log_exists, ledger)
    /\ prev_succeeded' = prev_succeeded \cup
           { DownloadUrl(i) : i \in { j \in TaskIds : tasks[j].outcome = "success" } }
    /\ tasks' = [ i \in TaskIds |-> NewTask ]
    /\ budget' = Budget(Len(urls), workers, run + 1)
    /\ aborted' = FALSE
    /\ UNCHANGED << urls, workers, ledger, log_exists, files, crawl >>

Next ==
    \/ \E i \in TaskIds : Start(i)
    \/ \E i \in TaskIds : Check(i)
    \/ \E i \in TaskIds : Get(i)
    \/ \E i \in TaskIds : OpenFile(i)
    \/ \E i \in TaskIds : WriteChunk(i)
    \/ \E i \in TaskIds : CloseFile(i)
    \/ \E i \in TaskIds : LogOpen(i)
    \/ \E i \in TaskIds : LogStat(i)
    \/ \E i \in TaskIds : LogFlush(i)
    \/ \E i \in TaskIds : AddHistory(i)
    \/ MainAbort
    \/ NextRun

Spec == Init /\ [][Next]_vars

(* ------------------- loading a log of earlier runs --------------------- *)
\* the rows earlier runs may have left after the first header: a success or
\* a failed row of article a or b, or a header written a second time
LoggedUrls == { <<AbsTok, "a">>, <<AbsTok, "b">> }
RowChoices ==
    { LogRow(u, convert_to_download_url(u),
             file_name_of(convert_to_download_url(u)), st) :
        u \in LoggedUrls, st \in {"success", "failed"} } \cup { HeaderRow }
Logs ==
    { << >> } \cup
    { << HeaderRow >> \o rows :
        rows \in UNION { [ 1..n -> RowChoices ] : n \in 1..MaxRows } }

\* the process is started on a disk with any of these logs, or with none
InitLoad ==
    /\ ledger \in Logs
    /\ log_exists \in BOOLEAN
    /\ ledger # << >> => log_exists
    /\ run = 0
    /\ urls = << >>
    /\ workers = 1
    /\ files = InitialDisk.files
    /\ download_history = {}
    /\ start_history = {}
    /\ tasks = << >>
    /\ budget = 0
    /\ aborted = FALSE
    /\ prev_succeeded = {}
    /\ crawl = Returned

\* Webdriver.__init__: self.download_history = self.__load_download_history()
Construct ==
    /\ run = 0
    /\ run' = 1
    /\ download_history' = load_download_history(log_exists, ledger)
    /\ start_history' = load_download_history(log_exists, ledger)
    /\ UNCHANGED << urls, workers, ledger, log_exists, files, tasks, aborted,
                    budget, prev_succeeded, crawl >>

NextLoad == Construct

SpecLoad == InitLoad /\ [][NextLoad]_vars

(* ----------------------------- discovery ------------------------------ *)
\* the url argument of main; its first token is scheme and host
Origin == "https://ascopubs.org"
StartUrl == << Origin, "/toc/", "meeting" >>

\* urljoin(url, href) for an href that is an absolute URL or an absolute path
urljoin(base, href) ==
    IF href # << >> /\ href[1] = Origin THEN href ELSE << base[1] >> \o href

\* str.lower() of the words a link text is made of
Lower(word) ==
    CASE word = "View" -> "view"
      [] word = "Abstract" -> "abstract"
      [] word = "ABSTRACT" -> "abstract"
      [] word = "PDF" -> "pdf"
      [] OTHER -> word

\* the a.card-format elements a listing page may show: href and text
Links ==
    { [ href |-> << AbsTok, "a" >>,         text |-> << "View", "Abstract" >> ],
      [ href |-> << Origin, AbsTok, "b" >>, text |-> << "ABSTRACT" >> ],
      [ href |-> << PdfTok, "c" >>,         text |-> << "PDF" >> ] }

\* how many such elements a page may have; a site is its listing pages in
\* order, each but the last with a Next button leading to the following one
LinkCounts == {0, 1, 2}
Pages == UNION { [ 1..n -> Links ] : n \in LinkCounts }
Sites == UNION { [ 1..n -> Pages ] : n \in 1..MaxPages }

\* 'abstract' in a.get_text().lower()
IsAbstractLink(a) == \E k \in DOMAIN a.text : Lower(a.text[k]) = "abstract"

\* [urljoin(url, a['href']) for a in soup.find_all('a', class_='card-format')
\*  if 'abstract' in a.get_text().lower()]
PageUrls(base, page) ==
    LET sel == SelectSeq(page, IsAbstractLink)
    IN  [ k \in DOMAIN sel |-> urljoin(base, sel[k].href) ]

\* main has built the Webdriver on a fresh disk and calls get_abstract_urls
InitDiscover ==
    /\ crawl \in { [ phase |-> "get", site |-> s, max_pages |-> m,
                      parsed |-> 0, at |-> 0, failed |-> 0 ] :
                    s \in Sites, m \in 0..MaxPages }
    /\ urls = << >>
    /\ workers \in 1..MaxWorkers
    /\ run = 1
    /\ ledger = InitialDisk.ledger
    /\ log_exists = InitialDisk.log_exists
    /\ files = InitialDisk.files
    /\ download_history = load_download_history(InitialDisk.log_exists, InitialDisk.ledger)
    /\ start_history = load_download_history(InitialDisk.log_exists, InitialDisk.ledger)
    /\ tasks = << >>
    /\ budget = 0
    /\ aborted = FALSE
    /\ prev_succeeded = {}

\* the except clause of get_abstract_urls and the return after it: the
\* exception was raised while page k was loaded or parsed
Fails(c, k) == [ c EXCEPT !.phase = "returned", !.failed = k ]

\* for page in range(max_pages): another pass, or the return after the loop
LoopTop(c) ==
    IF c.parsed < c.max_pages
    THEN [ c EXCEPT !.phase = "wait" ]
    ELSE [ c EXCEPT !.phase = "returned" ]

KeepRun ==
    UNCHANGED << workers, run, ledger, log_exists, files, download_history,
                 start_history, aborted, budget, prev_succeeded >>

\* self.driver.get(url); self.__consent_to_cookies()
DriverGet ==
    /\ crawl.phase = "get"
    /\ \/ crawl' = LoopTop([ crawl EXCEPT !.at = 1 ])
       \/ crawl' = Fails(crawl, 1)
    /\ UNCHANGED << urls, tasks >>
    /\ KeepRun

\* a parser that has extended the list when the exception is raised
ParsePageKeepsPartial ==
    /\ crawl.phase = "wait"
    /\ \/ /\ crawl.site[crawl.at] # << >>
          /\ urls' = urls \o PageUrls(StartUrl, crawl.site[crawl.at])
          /\ crawl' = [ crawl EXCEPT !.phase = "next", !.parsed = crawl.parsed + 1 ]
       \/ /\ urls' = urls \o PageUrls(StartUrl, crawl.site[crawl.at])
          /\ crawl' = Fails(crawl, crawl.at)
    /\ UNCHANGED tasks
    /\ KeepRun

\* one pass of the loop up to extend: wait for an a.card-format element
\* (times out on a page that has none), parse the page, extend the list
ParsePage ==
    /\ crawl.phase = "wait"
    /\ \/ /\ crawl.site[crawl.at] # << >>
          /\ urls' = urls \o PageUrls(StartUrl, crawl.site[crawl.at])
          /\ crawl' = [ crawl EXCEPT !.phase = "next", !.parsed = crawl.parsed + 1 ]
       \/ \* the wait times out or the parse raises
          /\ urls' = urls
          /\ crawl' = Fails(crawl, crawl.at)
    /\ UNCHANGED tasks
    /\ KeepRun

\* the rest of the pass: follow the Next button if there is one, else break
ClickNext ==
    /\ crawl.phase = "next"
    /\ IF crawl.at < Len(crawl.site)
       THEN \/ crawl' = LoopTop([ crawl EXCEPT !.at = crawl.at + 1 ])
            \/ crawl' = Fails(crawl, crawl.at + 1)
       ELSE crawl' = [ crawl EXCEPT !.phase = "returned" ]
    /\ UNCHANGED << urls, tasks >>
    /\ KeepRun

\* main: executor.map(driver.download_abstract, urls) submits one call per URL
Schedule ==
    /\ crawl.phase = "returned"
    /\ crawl' = [ crawl EXCEPT !.phase = "done" ]
    /\ tasks' = [ i \in 1..Len(urls) |-> NewTask ]
    /\ UNCHANGED urls
    /\ KeepRun

NextDiscover ==
    \/ DriverGet
    \/ ParsePage
    \/ ClickNext
    \/ Schedule
    \/ \E i \in TaskIds : Start(i)

SpecDiscover == InitDiscover /\ [][NextDiscover]_vars

(* ------------------------------- claims -------------------------------- *)
SuccessRows(download_url) ==
    { k \in DOMAIN ledger :
        ledger[k].status = "success" /\ ledger[k].download_url = download_url }
RowsFor(download_url) ==
    { k \in DOMAIN ledger : ledger[k].download_url = download_url }
DataRows == { k \in DOMAIN ledger : ledger[k] # HeaderRow }

\* C1: a task whose download URL was in the history loaded at the start of
\* the run issues no GET, appends no row, opens no file, and when it has run
\* it ended as skipped.
C1_KnownAtStartIsSkipped ==
    \A i \in TaskIds :
        DownloadUrl(i) \in start_history =>
            /\ tasks[i].gets = 0
            /\ tasks[i].nsucc = 0 /\ tasks[i].nfail = 0
            /\ ~tasks[i].opened
            /\ tasks[i].pc = "done" => tasks[i].outcome \in {"skipped", "cancelled"}

\* two workers, and a task of a resource the log already held was skipped
C1_Witness ==
    /\ workers = 2 /\ Len(urls) >= 2
    /\ \E i \in TaskIds :
         /\ DownloadUrl(i) \in start_history
         /\ tasks[i].outcome = "skipped"

\* C2: no GET is issued for a download URL that is in download_history at
\* the moment the GET is issued.
C2_NoGetForKnownUrl ==
    [][ \A i \in TaskIds :
          (run' = run /\ tasks'[i].gets = tasks[i].gets + 1)
              => DownloadUrl(i) \notin download_history ]_vars

\* C3: a task that is not skipped appends exactly one row over its whole
\* execution: never two, and one when it has returned.
C3_OneRowPerTask ==
    \A i \in TaskIds :
        /\ tasks[i].nsucc + tasks[i].nfail <= 1
        /\ tasks[i].outcome \in {"success", "failed"}
               => tasks[i].nsucc + tasks[i].nfail = 1

\* C4: when the batch has finished, a resource a task has downloaded
\* successfully has exactly one success row in the log.
C4_OneSuccessRowPerResource ==
    AllDone =>
        \A i \in TaskIds :
            tasks[i].outcome = "success"
                => Cardinality(SuccessRows(DownloadUrl(i))) = 1

\* C5: in every state, the file of a success row exists, is completely
\* written and is not empty.
C5_SuccessRowHasWholeFile ==
    \A k \in DOMAIN ledger :
        ledger[k].status = "success" =>
            /\ files[ledger[k].file_name].exists
            /\ files[ledger[k].file_name].complete
            /\ files[ledger[k].file_name].size > 0

\* the task is at a __log_download(..., 'failed') or has appended a failed row
RecordsFailure(i) ==
    \/ tasks[i].nfail > 0
    \/ tasks[i].pc \in {"log_open", "log_stat", "log_flush"} /\ tasks[i].ctx # "success"

\* C6: a task all of whose requests ended in a non-2xx status or a transport
\* exception issues 6 GETs, sleeps 2, 4, 8, 16, 32 seconds, and records
\* failure only then.
C6_SixGetsFiveSleeps ==
    \A i \in TaskIds :
        tasks[i].hist \in {"err", "transient"} =>
            /\ tasks[i].gets <= 6
            /\ RecordsFailure(i) =>
                   /\ tasks[i].gets = 6
                   /\ tasks[i].sleeps = << 2, 4, 8, 16, 32 >>

\* C7: a task issues at most 6 GETs, whatever the server answers.
C7_AtMostSixGets ==
    \A i \in TaskIds : tasks[i].gets <= 6

\* C8: a task all of whose attempts failed by an HTTP error status or a
\* transport exception appends no success row and never adds its URL to the
\* history; when it has returned it has appended exactly one failed row, and
\* unless another task downloaded the resource, the history loaded from the
\* log by the next run does not hold the resource.
C8_AllAttemptsFailed ==
    \A i \in TaskIds :
        tasks[i].hist = "err" =>
            /\ tasks[i].nsucc = 0
            /\ ~tasks[i].added
            /\ tasks[i].nfail <= 1
            /\ (tasks[i].pc = "done" /\ tasks[i].outcome \notin {"skipped", "cancelled"}) =>
                   /\ tasks[i].outcome = "failed"
                   /\ tasks[i].nfail = 1
                   /\ (\A j \in TaskIds :
                          DownloadUrl(j) = DownloadUrl(i) => tasks[j].nsucc = 0)
                        => DownloadUrl(i) \notin load_download_history(log_exists, ledger)

\* a task has gone through six failed attempts and returned
C8_Witness ==
    \E i \in TaskIds :
        /\ tasks[i].hist = "err"
        /\ tasks[i].pc = "done" /\ tasks[i].outcome = "failed"
        /\ tasks[i].gets = 6

\* C9: in a later run on the same URLs no GET is issued for a resource a
\* task of an earlier run succeeded for, whatever failed rows the log holds.
C9_NoGetAfterEarlierSuccess ==
    \A i \in TaskIds :
        DownloadUrl(i) \in prev_succeeded => tasks[i].gets = 0

\* second run; the resource succeeded in the first, the log also holds a
\* failed row for it, and its task was skipped
C9_Witness ==
    /\ run = 2
    /\ \E i \in TaskIds :
         /\ DownloadUrl(i) \in prev_succeeded
         /\ tasks[i].outcome = "skipped"
         /\ \E k \in RowsFor(DownloadUrl(i)) : ledger[k].status = "failed"

\* every request of the run succeeded on its first attempt
AllFirstTry ==
    \A i \in TaskIds :
        /\ tasks[i].attempt = 0 /\ tasks[i].gets <= 1 /\ tasks[i].nfail = 0
        /\ tasks[i].outcome \in {"success", "skipped"}

DistinctResources ==
    \A i, j \in TaskIds : DownloadUrl(i) = DownloadUrl(j) => i = j

DistinctUrls ==
    \A i, j \in TaskIds : urls[i] = urls[j] => i = j

\* C10 as stated: M different URLs, N < M workers, an empty log and only
\* first-attempt successes leave exactly M data rows.
C10_MRowsForMUrls ==
    (run = 1 /\ AllDone /\ Len(urls) > workers /\ AllFirstTry /\ DistinctUrls)
        => Cardinality(DataRows) = Len(urls)

\* C10 amended: M URLs that lead to M different resources, N < M workers, an
\* empty log and only first-attempt successes leave exactly M data rows, one
\* success row for each resource.
C10_MRowsForMResources ==
    (run = 1 /\ AllDone /\ Len(urls) > workers /\ AllFirstTry /\ DistinctResources)
        => /\ Cardinality(DataRows) = Len(urls)
           /\ \A i \in TaskIds :
                /\ Cardinality(RowsFor(DownloadUrl(i))) = 1
                /\ Cardinality(SuccessRows(DownloadUrl(i))) = 1

\* three resources, two workers, all succeeded, and two workers wrote the
\* header because both saw the log empty
C10_Witness ==
    /\ run = 1 /\ AllDone /\ Len(urls) = 3 /\ workers = 2
    /\ AllFirstTry /\ DistinctResources
    /\ Cardinality(DataRows) = 3
    /\ Len(ledger) = 5

\* C11: under any interleaving of appends the log holds the header row
\* exactly once, as its first row.  (Rows are written whole: a call writes
\* its buffer in one append when it closes the file.)
C11_HeaderOnceAndFirst ==
    Len(ledger) > 0 =>
        /\ ledger[1] = HeaderRow
        /\ \A k \in DOMAIN ledger : k >= 2 => ledger[k] # HeaderRow

\* C18: a task all of whose attempts raised sleeps after every one of them,
\* the last included: 2^k seconds after attempt k, and when it records the
\* failure it has issued 6 GETs, its attempt counter is 6 and it has slept
\* 2, 4, 8, 16, 32 and 64 seconds.
C18_SleepAfterEveryAttempt ==
    \A i \in TaskIds :
        /\ Len(tasks[i].sleeps) = tasks[i].attempt
        /\ (tasks[i].hist = "err" /\ RecordsFailure(i)) =>
               /\ tasks[i].attempt = 6
               /\ tasks[i].gets = 6
               /\ tasks[i].sleeps = << 2, 4, 8, 16, 32, 64 >>

\* the failed row of such a task is in the log, after its 64-second sleep
C18_Witness ==
    \E i \in TaskIds :
        /\ tasks[i].hist = "err"
        /\ tasks[i].nfail = 1
        /\ tasks[i].sleeps = << 2, 4, 8, 16, 32, 64 >>
        /\ \E k \in RowsFor(DownloadUrl(i)) : ledger[k].status = "failed"

\* C19: every URL of download_history has a success row in the log.
C19_HistoryHasSuccessRow ==
    \A d \in download_history : SuccessRows(d) # {}

\* two workers have each added a URL during the first run
C19_Witness ==
    /\ run = 1 /\ workers = 2
    /\ Cardinality(download_history) = 2
    /\ \A i \in TaskIds : tasks[i].added

\* C12: a task that fails, a log append that raises included, never takes
\* its siblings with it: no task of the batch is cancelled, and a task whose
\* call raised has its failure in the log.
C12_FailureStaysLocal ==
    \A i \in TaskIds :
        /\ tasks[i].outcome # "cancelled"
        /\ tasks[i].outcome = "raised" => tasks[i].nfail > 0

\* C14: a response with any 2xx status is handled as a success: the task
\* never takes the branch that logs 'failed' for it.
C14_Every2xxIsSuccess ==
    \A i \in TaskIds :
        (tasks[i].last >= 200 /\ tasks[i].last < 300) =>
            /\ tasks[i].ctx \in {"none", "success"}
            /\ tasks[i].pc \in {"open", "stream", "log_open", "log_stat", "log_flush", "add"}

\* C15: when the append of the success row raises (the body is on disk, the
\* file closed), the task does not go back to a request and its resource URL
\* is in download_history.
C15_LostAppendKeepsHistory ==
    [][ \A i \in TaskIds :
          ( /\ tasks[i].pc = "log_open" /\ tasks[i].ctx = "success"
            /\ tasks'[i].pc \notin {"log_open", "log_stat"} )
          => ( /\ tasks'[i].pc # "get"
               /\ tasks'[i].gets = tasks[i].gets
               /\ DownloadUrl(i) \in download_history' ) ]_vars

\* C16: a task that makes its history check after a task of this run has
\* added the same resource URL is skipped; a skipped task has sent no request
\* and appended no row; with one worker, after a task succeeded no later task
\* for the same resource sends a request or appends a row.
C16_SkipAfterSuccess ==
    [][ /\ \A i \in TaskIds :
             ( /\ tasks[i].pc = "check" /\ tasks'[i].pc # "check"
               /\ \E j \in TaskIds : /\ tasks[j].added
                                     /\ DownloadUrl(j) = DownloadUrl(i) )
             => tasks'[i].outcome = "skipped"
        /\ \A i \in TaskIds :
             tasks'[i].outcome = "skipped" =>
                 /\ tasks'[i].gets = 0
                 /\ tasks'[i].nsucc = 0 /\ tasks'[i].nfail = 0
        /\ workers = 1 =>
             \A i, j \in TaskIds :
                 ( /\ i < j /\ DownloadUrl(i) = DownloadUrl(j)
                   /\ tasks'[i].outcome = "success" )
                 => ( /\ tasks'[j].gets = 0
                      /\ tasks'[j].nsucc = 0 /\ tasks'[j].nfail = 0
                      /\ Cardinality(SuccessRows(DownloadUrl(i))') = 1 ) ]_vars

\* one worker, the same URL twice: fetched by the first task, skipped by the second
C16_Witness ==
    /\ run = 1 /\ workers = 1
    /\ Len(urls) = 2 /\ urls[1] = urls[2]
    /\ tasks[1].outcome = "success" /\ tasks[1].added /\ tasks[1].gets = 1
    /\ tasks[2].outcome = "skipped" /\ tasks[2].gets = 0
    /\ Cardinality(SuccessRows(DownloadUrl(1))) = 1

\* C13: the history the constructor loads is exactly the set of download
\* URLs that have at least one success row in the log, whatever rows follow
\* it, and it is empty when the log is absent or empty.
C13_LoadIsSuccessUrls ==
    run = 1 =>
        /\ \A d \in download_history : SuccessRows(d) # {}
        /\ \A k \in DOMAIN ledger :
               ledger[k].status = "success" => ledger[k].download_url \in download_history
        /\ (~log_exists \/ ledger = << >>) => download_history = {}

\* loaded from a log where a success row of one resource is followed by a
\* failed row of it, and another resource has a failed row only
C13_Witness ==
    /\ run = 1
    /\ \E j, k \in DOMAIN ledger :
         /\ j < k
         /\ ledger[j].status = "success" /\ ledger[k].status = "failed"
         /\ ledger[j].download_url = ledger[k].download_url
         /\ \A m \in DOMAIN ledger :
                ledger[m].download_url = ledger[k].download_url => m <= k
         /\ ledger[k].download_url \in download_history
    /\ \E k \in DOMAIN ledger :
         /\ ledger[k].status = "failed"
         /\ SuccessRows(ledger[k].download_url) = {}
         /\ ledger[k].download_url \notin download_history

\* the abstract URLs of the first n listing pages, in order
RECURSIVE Gathered(_, _)
Gathered(site, n) ==
    IF n = 0 THEN << >>
    ELSE Gathered(site, n - 1) \o PageUrls(StartUrl, site[n])

\* C17: when discovery fails while page k is loaded or parsed it returns the
\* abstract URLs of the pages before k, in order, and a download task is
\* scheduled for each of them; discovery parses at most max_pages pages, and
\* no download task exists, let alone starts, before discovery has returned.
C17_PartialDiscovery ==
    /\ crawl.parsed <= crawl.max_pages
    /\ crawl.phase # "done" => tasks = << >>
    /\ (crawl.phase \in {"returned", "done"} /\ crawl.failed >= 1) =>
           urls = Gathered(crawl.site, crawl.failed - 1)
    /\ crawl.phase = "done" =>
           /\ Len(tasks) = Len(urls)
           /\ crawl.failed = 0 => \E n \in 0..crawl.max_pages : urls = Gathered(crawl.site, n)

\* discovery failed at page 2, whose links are lost; both links of page 1
\* were returned and the download of the first has started
C17_Witness ==
    /\ crawl.phase = "done" /\ crawl.failed = 2
    /\ Len(urls) = 2 /\ urls[1] # urls[2]
    /\ PageUrls(StartUrl, crawl.site[2]) # << >>
    /\ Len(tasks) = 2 /\ tasks[1].pc = "check"

====
